---- MODULE Spec2Model ----
(***************************************************************************)
(* Model of the expense tracker page (src/src/app/page.tsx, component      *)
(* Home): the transaction collection held in React state, the form, the    *)
(* date/month/type filters, and the mirror of the collection kept in       *)
(* localStorage under STORAGE_KEY.                                         *)
(*                                                                         *)
(* Strings are sequences of one-character strings, so that trim, the       *)
(* digit filter, parseInt, split and toLocaleString are computed.          *)
(* An instant is [d |-> days since 1970-01-01 UTC, ms |-> ms of that day]: *)
(* epoch milliseconds do not fit the checker's integers, and the pair      *)
(* ordered lexicographically is the same order.                            *)
(***************************************************************************)
EXTENDS Integers, Sequences, FiniteSets, TLC

VARIABLES
    transactions,   \* useState<Transaction[]>([])            page.tsx:47
    name,           \* useState("")                            page.tsx:48
    amount,         \* useState("")                            page.tsx:49
    type,           \* useState<TransactionType>(...)         page.tsx:50
    filterMode,     \* page.tsx:52
    filterStart,    \* page.tsx:53
    filterEnd,      \* page.tsx:54
    filterMonth,    \* page.tsx:55
    listFilter,     \* page.tsx:56
    storage,        \* localStorage's entry under STORAGE_KEY
    phase,          \* "unmounted" | "mounted": whether Home is mounted
    effects,        \* effects scheduled by the last commit, not yet run
    updates,        \* setTransactions calls queued by effects, not yet rendered
    tz,             \* the browser's UTC offset in ms (local = UTC + tz)
    last,           \* history: the last operation, and what a submission found
    mountBlob,      \* history: storage as it was at the mount, until the first add or delete
    prevSynced,     \* history: the session before ended with the collection persisted (same limit)
    ioFailures      \* history: storage reads and writes that threw since the mount

vars == <<transactions, name, amount, type, filterMode, filterStart, filterEnd,
          filterMonth, listFilter, storage, phase, effects, updates, tz,
          last, mountBlob, prevSynced, ioFailures>>

formVars == <<name, amount, type>>
filterVars == <<filterMode, filterStart, filterEnd, filterMonth, listFilter>>
histVars == <<last, mountBlob, prevSynced, ioFailures>>
mountHist == <<mountBlob, prevSynced, ioFailures>>

(***************************************************************************)
(* Bounds                                                                  *)
(***************************************************************************)
\* Longest collection the model builds by adding.
MaxTx == 2
\* Most storage reads and writes that throw in one session.
MaxIoFailures == 1

(***************************************************************************)
(* Strings                                                                 *)
(***************************************************************************)
Digits == {"0", "1", "2", "3", "4", "5", "6", "7", "8", "9"}

DigitVal(c) ==
    CASE c = "0" -> 0 [] c = "1" -> 1 [] c = "2" -> 2 [] c = "3" -> 3
      [] c = "4" -> 4 [] c = "5" -> 5 [] c = "6" -> 6 [] c = "7" -> 7
      [] c = "8" -> 8 [] c = "9" -> 9

DigitChar(n) ==
    CASE n = 0 -> "0" [] n = 1 -> "1" [] n = 2 -> "2" [] n = 3 -> "3"
      [] n = 4 -> "4" [] n = 5 -> "5" [] n = 6 -> "6" [] n = 7 -> "7"
      [] n = 8 -> "8" [] n = 9 -> "9"

IsSpace(c) == c = " "

RECURSIVE TrimStart(_)
TrimStart(s) ==
    IF s # <<>> /\ IsSpace(Head(s)) THEN TrimStart(Tail(s)) ELSE s

RECURSIVE TrimEnd(_)
TrimEnd(s) ==
    IF s # <<>> /\ IsSpace(s[Len(s)]) THEN TrimEnd(SubSeq(s, 1, Len(s) - 1)) ELSE s

\* String.prototype.trim
Trim(s) == TrimEnd(TrimStart(s))

\* value.replace(/\D/g, "")
DigitsOnly(s) == SelectSeq(s, LAMBDA c : c \in Digits)

\* A JS number that may be NaN.
NaN == [nan |-> TRUE, val |-> 0]
Num(n) == [nan |-> FALSE, val |-> n]

RECURSIVE DigitsValue(_)
DigitsValue(s) ==
    IF s = <<>> THEN 0 ELSE 10 * DigitsValue(SubSeq(s, 1, Len(s) - 1)) + DigitVal(s[Len(s)])

RECURSIVE LeadingDigits(_)
LeadingDigits(s) ==
    IF s # <<>> /\ Head(s) \in Digits THEN <<Head(s)>> \o LeadingDigits(Tail(s)) ELSE <<>>

\* parseInt(s, 10) on a string without sign or leading blanks: the value of
\* the leading run of digits, NaN when there is none.
ParseInt(s) ==
    LET run == LeadingDigits(s)
    IN IF run = <<>> THEN NaN ELSE Num(DigitsValue(run))

RECURSIVE DecimalDigits(_)
DecimalDigits(n) ==
    IF n < 10 THEN <<DigitChar(n)>> ELSE DecimalDigits(n \div 10) \o <<DigitChar(n % 10)>>

RECURSIVE GroupThousands(_)
GroupThousands(ds) ==
    IF Len(ds) <= 3 THEN ds
    ELSE GroupThousands(SubSeq(ds, 1, Len(ds) - 3)) \o <<".">> \o SubSeq(ds, Len(ds) - 2, Len(ds))

\* number.toLocaleString("vi-VN") of a non-negative integer: groups of three
\* digits separated by ".".
ToLocaleStringVi(n) == GroupThousands(DecimalDigits(n))

formatCurrencyInput(value) ==
    LET digitsOnly == DigitsOnly(value)
    IN IF digitsOnly = <<>> THEN <<>>
       ELSE LET number == ParseInt(digitsOnly)
            IN IF number.nan THEN <<>> ELSE ToLocaleStringVi(number.val)

\* str.split(sep)
RECURSIVE Split(_, _)
Split(s, sep) ==
    IF \A i \in 1..Len(s) : s[i] # sep THEN <<s>>
    ELSE LET i == CHOOSE k \in 1..Len(s) : s[k] = sep /\ \A j \in 1..(k - 1) : s[j] # sep
         IN <<SubSeq(s, 1, i - 1)>> \o Split(SubSeq(s, i + 1, Len(s)), sep)

(***************************************************************************)
(* Dates.  A time value is what Date.prototype.getTime returns: a number   *)
(* (an instant) or NaN; the open bounds of the range filter are -Infinity  *)
(* and Infinity.                                                           *)
(***************************************************************************)
MsPerDay == 24 * 60 * 60 * 1000

Instant(d, ms) == [k |-> "num", d |-> d, ms |-> ms]
InvalidDate == [k |-> "nan", d |-> 0, ms |-> 0]
NegInfinity == [k |-> "neginf", d |-> 0, ms |-> 0]
PosInfinity == [k |-> "posinf", d |-> 0, ms |-> 0]

\* The instant ms milliseconds after the start of day d.
Normalize(d, ms) == Instant(d + (ms \div MsPerDay), ms % MsPerDay)

\* a >= b on time values (false when either is NaN).
TimeGe(a, b) ==
    /\ a.k # "nan" /\ b.k # "nan"
    /\ \/ a.k = "posinf"
       \/ b.k = "neginf"
       \/ /\ a.k = "num" /\ b.k = "num"
          /\ (a.d > b.d \/ (a.d = b.d /\ a.ms >= b.ms))

\* a <= b on time values.
TimeLe(a, b) == TimeGe(b, a)

\* Days from 1970-01-01 to the civil date (y, m, d) of the proleptic
\* Gregorian calendar (ECMAScript MakeDay), m in 1..12.
DaysFromCivil(y, m, d) ==
    LET yy == IF m <= 2 THEN y - 1 ELSE y
        era == yy \div 400
        yoe == yy - era * 400
        mp == IF m > 2 THEN m - 3 ELSE m + 9
        doy == (153 * mp + 2) \div 5 + d - 1
        doe == yoe * 365 + yoe \div 4 - yoe \div 100 + doy
    IN era * 146097 + doe - 719468

\* The civil date <<y, m, d>> of day number days (ECMAScript YearFromTime,
\* MonthFromTime, DateFromTime).
CivilFromDays(days) ==
    LET z == days + 719468
        era == z \div 146097
        doe == z - era * 146097
        yoe == (doe - doe \div 1460 + doe \div 36524 - doe \div 146096) \div 365
        doy == doe - (365 * yoe + yoe \div 4 - yoe \div 100)
        mp == (5 * doy + 2) \div 153
        d == doy - (153 * mp + 2) \div 5 + 1
        m == IF mp < 10 THEN mp + 3 ELSE mp - 9
        y == yoe + era * 400
    IN <<IF m <= 2 THEN y + 1 ELSE y, m, d>>

\* Local wall-clock time of a UTC instant, and back (a fixed offset tz).
ToLocal(t) == Normalize(t.d, t.ms + tz)
FromLocal(t) == Normalize(t.d, t.ms - tz)

\* new Date(y, monthIndex, day, h, mi, s, ms): local time, fields out of range
\* carried over (month 12 is January of the next year, day 0 the last day of
\* the month before); NaN fields give an invalid date; years 0..99 are 19xx.
NewDateLocal(y, monthIndex, day, h, mi, s, ms) ==
    IF y.nan \/ monthIndex.nan \/ day.nan THEN InvalidDate
    ELSE LET fy == IF y.val \in 0..99 THEN 1900 + y.val ELSE y.val
             yy == fy + (monthIndex.val \div 12)
             mm == (monthIndex.val % 12) + 1
             days == DaysFromCivil(yy, mm, 1) + (day.val - 1)
             msod == ((h * 60 + mi) * 60 + s) * 1000 + ms
             l == Normalize(days, msod)
         IN FromLocal(l)

\* d.getFullYear(), d.getMonth(), d.getDate(): local calendar fields, NaN of
\* an invalid date.
getFullYear(d) == IF d.k # "num" THEN NaN ELSE Num(CivilFromDays(ToLocal(d).d)[1])
getMonth(d) == IF d.k # "num" THEN NaN ELSE Num(CivilFromDays(ToLocal(d).d)[2] - 1)
getDate(d) == IF d.k # "num" THEN NaN ELSE Num(CivilFromDays(ToLocal(d).d)[3])

IsLeap(y) == (y % 4 = 0 /\ y % 100 # 0) \/ y % 400 = 0

DaysInMonth(y, m) ==
    IF m = 2 THEN (IF IsLeap(y) THEN 29 ELSE 28)
    ELSE IF m \in {4, 6, 9, 11} THEN 30 ELSE 31

AllDigits(s) == \A i \in 1..Len(s) : s[i] \in Digits

\* new Date(str) for the value of a date input: the date-only ISO form
\* YYYY-MM-DD is midnight UTC of that day; any other text here is an
\* invalid date.
NewDateFromString(str) ==
    LET parts == Split(str, "-")
    IN IF /\ Len(parts) = 3
          /\ Len(parts[1]) = 4 /\ Len(parts[2]) = 2 /\ Len(parts[3]) = 2
          /\ AllDigits(parts[1]) /\ AllDigits(parts[2]) /\ AllDigits(parts[3])
       THEN LET y == DigitsValue(parts[1])
                m == DigitsValue(parts[2])
                d == DigitsValue(parts[3])
            IN IF m \in 1..12 /\ d \in 1..DaysInMonth(y, m)
               THEN Instant(DaysFromCivil(y, m, d), 0)
               ELSE InvalidDate
       ELSE InvalidDate

\* date.toISOString(): the UTC calendar date and the time of day, kept as
\* fields ("YYYY-MM-DDTHH:mm:ss.sssZ").
toISOString(t) == [ymd |-> CivilFromDays(t.d), msOfDay |-> t.ms]

\* new Date(isoString).getTime() for a string toISOString produced.
NewDateFromISO(iso) == Instant(DaysFromCivil(iso.ymd[1], iso.ymd[2], iso.ymd[3]), iso.msOfDay)

startOfDay(d) == NewDateLocal(getFullYear(d), getMonth(d), getDate(d), 0, 0, 0, 0)
endOfDay(d) == NewDateLocal(getFullYear(d), getMonth(d), getDate(d), 23, 59, 59, 999)

(***************************************************************************)
(* Transactions and their JSON form                                        *)
(***************************************************************************)
\* type TransactionType = "Chi tieu" | "Thu nhap" (expense | income; the
\* source's strings carry diacritics).
Expense == "Chi tieu"
Income == "Thu nhap"
TransactionType == {Expense, Income}

\* `${Date.now()}-${Math.random().toString(16).slice(2)}`: the clock's
\* reading and the random draw, kept as fields.
MakeId(now, rnd) == <<now.d, now.ms, rnd>>

Transaction(id, n, a, ty, createdAt) ==
    [id |-> id, name |-> n, amount |-> a, type |-> ty, createdAt |-> createdAt]

\* What localStorage.getItem(STORAGE_KEY) can return: null (no entry), or a
\* text: the empty string, a text that is not JSON, or a JSON text, kept as
\* the document it denotes.  A JSON array is [j |-> "array", items |-> the
\* elements], each element an object kept as its members <<key, value>> in
\* order; every JSON value that is no array is [j |-> "other"].
OtherDoc == [j |-> "other", items |-> <<>>]
ArrayDoc(items) == [j |-> "array", items |-> items]
NoItem == [kind |-> "none", doc |-> OtherDoc]
EmptyText == [kind |-> "empty", doc |-> OtherDoc]
GarbageText == [kind |-> "garbage", doc |-> OtherDoc]
JsonText(doc) == [kind |-> "json", doc |-> doc]

\* The members JSON.stringify writes for one record, in property order.
EncodeRecord(t) ==
    << <<"id", t.id>>, <<"name", t.name>>, <<"amount", t.amount>>,
       <<"type", t.type>>, <<"createdAt", t.createdAt>> >>

Member(obj, key) == (CHOOSE i \in 1..Len(obj) : obj[i][1] = key)

\* The object JSON.parse builds from the members.
DecodeRecord(obj) ==
    [id |-> obj[Member(obj, "id")][2],
     name |-> obj[Member(obj, "name")][2],
     amount |-> obj[Member(obj, "amount")][2],
     type |-> obj[Member(obj, "type")][2],
     createdAt |-> obj[Member(obj, "createdAt")][2]]

\* JSON.stringify(transactions)
JSONStringify(txs) == JsonText(ArrayDoc([i \in 1..Len(txs) |-> EncodeRecord(txs[i])]))

\* JSON.parse(raw): throws on a text that is not JSON, otherwise the value.
JSONParse(raw) ==
    IF raw.kind # "json" THEN [threw |-> TRUE, isArray |-> FALSE, value |-> <<>>]
    ELSE IF raw.doc.j = "array"
         THEN [threw |-> FALSE, isArray |-> TRUE,
               value |-> [i \in 1..Len(raw.doc.items) |-> DecodeRecord(raw.doc.items[i])]]
         ELSE [threw |-> FALSE, isArray |-> FALSE, value |-> <<>>]

\* if (raw): null and the empty string are falsy.
Truthy(raw) == raw.kind \notin {"none", "empty"}

(***************************************************************************)
(* Derived values (useMemo)                                                *)
(***************************************************************************)
\* !v for a parsed number: NaN (and undefined) and 0 are falsy.
FalsyNum(v) == v.nan \/ v.val = 0

\* new Date(t.createdAt).getTime()
CreatedMs(t) == NewDateFromISO(t.createdAt)

InWindow(txs, startMs, endMs) ==
    SelectSeq(txs, LAMBDA t : TimeGe(CreatedMs(t), startMs) /\ TimeLe(CreatedMs(t), endMs))

\* Mutant of MonthFiltered: the window ends at 00:00:00.000 of the last day.
MonthFiltered_EndAtMidnight(txs, month) ==
    IF month = <<>> THEN txs
    ELSE LET parts == Split(month, "-")
             y == ParseInt(parts[1])
             m == IF Len(parts) >= 2 THEN ParseInt(parts[2]) ELSE NaN
         IN IF FalsyNum(y) \/ FalsyNum(m) THEN txs
            ELSE LET start == NewDateLocal(y, Num(m.val - 1), Num(1), 0, 0, 0, 0)
                     end == NewDateLocal(y, m, Num(0), 0, 0, 0, 0)
                 IN InWindow(txs, start, end)

MonthFiltered(txs, month) ==
    IF month = <<>> THEN txs
    ELSE LET parts == Split(month, "-")
             y == ParseInt(parts[1])
             m == IF Len(parts) >= 2 THEN ParseInt(parts[2]) ELSE NaN
         IN IF FalsyNum(y) \/ FalsyNum(m) THEN txs
            ELSE LET start == NewDateLocal(y, Num(m.val - 1), Num(1), 0, 0, 0, 0)
                     end == NewDateLocal(y, m, Num(0), 23, 59, 59, 999)
                 IN InWindow(txs, start, end)

RangeStartMs(fs) == IF fs # <<>> THEN startOfDay(NewDateFromString(fs)) ELSE NegInfinity
RangeEndMs(fe) == IF fe # <<>> THEN endOfDay(NewDateFromString(fe)) ELSE PosInfinity

RangeFiltered(txs, fs, fe) == InWindow(txs, RangeStartMs(fs), RangeEndMs(fe))

FilterBy(txs, mode, fs, fe, month) ==
    IF mode = "all" THEN txs
    ELSE IF mode = "month" THEN MonthFiltered(txs, month)
    ELSE RangeFiltered(txs, fs, fe)

filteredTransactions == FilterBy(transactions, filterMode, filterStart, filterEnd, filterMonth)

RECURSIVE SumAmount(_)
SumAmount(txs) == IF txs = <<>> THEN 0 ELSE Head(txs).amount + SumAmount(Tail(txs))

OfType(txs, ty) == SelectSeq(txs, LAMBDA t : t.type = ty)

\* Mutant of totalExpense: the type filter is left out.
totalExpense_AllTypes == SumAmount(filteredTransactions)

totalExpense == SumAmount(OfType(filteredTransactions, Expense))
totalIncome == SumAmount(OfType(filteredTransactions, Income))
balance == totalIncome - totalExpense

\* Mutant of visibleListTransactions: the type filter is applied to the
\* whole collection, not to the date filter's result.
visibleListTransactions_OfCollection ==
    IF listFilter = "all" THEN filteredTransactions
    ELSE OfType(transactions, listFilter)

visibleListTransactions ==
    IF listFilter = "all" THEN filteredTransactions
    ELSE OfType(filteredTransactions, listFilter)

(***************************************************************************)
(* Inputs the model draws from                                             *)
(***************************************************************************)
Coffee == <<"C", "o", "f", "f", "e", "e">>
Salary == <<"S", "a", "l", "a", "r", "y">>

\* Texts typed into the name field.
NameInputs == { <<>>, <<" ">>, <<" ">> \o Coffee \o <<" ">>, Salary }

\* Texts typed into the amount field.
AmountInputs ==
    { <<>>, <<"0">>, <<"a", "b", "c">>,
      <<"5", "0", "0", "0", "0">>,
      <<"2", "0", "0", "0", "0", "0", "0">> }

\* Browser time zones: UTC-5, UTC, UTC+7 (offsets in ms).
TimeZones == { 0 - 5 * 60 * 60 * 1000, 0, 7 * 60 * 60 * 1000 }

\* The zone of the store's specification, whose operations never read it:
\* UTC+7 (the page's locale is vi-VN).
HomeZone == 7 * 60 * 60 * 1000

\* Readings of the clock (UTC): 2026-03-09T23:59:59.999Z, 2026-03-10T00:00:00.000Z.
NowInputs == { Instant(DaysFromCivil(2026, 3, 9), MsPerDay - 1),
               Instant(DaysFromCivil(2026, 3, 10), 0) }

\* Draws of Math.random.
RandInputs == {0}

\* Records a previous session, or anything else with access to the origin's
\* localStorage, may have left under STORAGE_KEY.
StoredA ==
    Transaction(MakeId(Instant(DaysFromCivil(2026, 1, 31), 0), 0), Coffee, 50000, Expense,
                toISOString(Instant(DaysFromCivil(2026, 1, 31), 0)))
StoredB ==
    Transaction(MakeId(Instant(DaysFromCivil(2026, 2, 1), 0), 1), Salary, 2000000, Income,
                toISOString(Instant(DaysFromCivil(2026, 2, 1), 0)))
\* An array element that is no well-formed Transaction: empty name, amount 0.
StoredBad ==
    Transaction(MakeId(Instant(0, 0), 0), <<>>, 0, Expense, toISOString(Instant(0, 0)))

InitBlobs ==
    { NoItem, EmptyText, GarbageText, JsonText(OtherDoc),
      JSONStringify(<<>>), JSONStringify(<<StoredA>>), JSONStringify(<<StoredB, StoredA>>),
      JSONStringify(<<StoredBad>>), JSONStringify(<<StoredA, StoredA>>) }

(***************************************************************************)
(* History: the last operation that ran; whether the write of its persist  *)
(* effect succeeded; how the reads of the load effects since the mount     *)
(* went; and, for a submission of the form, a delete or a click on a list  *)
(* filter button, the collection, the form, the storage entry, the         *)
(* date-filtered subset and the totals the handler found.                  *)
(***************************************************************************)
Last(op, wrote) ==
    [op |-> op, wrote |-> wrote, read |-> "none", tx |-> <<>>, name |-> <<>>,
     amount |-> <<>>, type |-> Expense, storage |-> NoItem, shown |-> <<>>,
     totals |-> <<0, 0, 0>>]

Snapshot(op, wrote) ==
    [op |-> op, wrote |-> wrote, read |-> "none", tx |-> transactions, name |-> name,
     amount |-> amount, type |-> type, storage |-> storage,
     shown |-> filteredTransactions,
     totals |-> <<totalExpense, totalIncome, balance>>]

\* The reads so far, after one more that succeeded or threw: all of them
\* succeeded ("ok"), all threw ("failed"), or some of each ("mixed").
ReadOutcome(prev, readOk) ==
    LET this == IF readOk THEN "ok" ELSE "failed"
    IN IF prev \in {"none", this} THEN this ELSE "mixed"

(***************************************************************************)
(* Mounting: the first render and its effects                              *)
(***************************************************************************)
LoadEffect == [e |-> "load", tx |-> <<>>]
\* The persist effect closes over the transactions of the render that
\* scheduled it.
PersistEffect(txs) == [e |-> "persist", tx |-> txs]

\* Both effects of Home in declaration order, as one commit schedules them.
MountEffects(txs) == <<LoadEffect, PersistEffect(txs)>>

\* No effect or state update is pending: the page waits for the user.
Idle == phase = "mounted" /\ effects = <<>> /\ updates = <<>>

InitialState ==
    /\ transactions = <<>>
    /\ name = <<>>
    /\ amount = <<>>
    /\ type = Expense
    /\ filterMode = "all"
    /\ filterStart = <<>>
    /\ filterEnd = <<>>
    /\ filterMonth = <<>>
    /\ listFilter = "all"

\* The first render of Home: every useState at its initial value, both
\* effects scheduled.  Under React's StrictMode (development builds) the
\* effects of the first commit are run, and then run once more.
Mount(strict) ==
    /\ phase = "unmounted"
    /\ phase' = "mounted"
    /\ UNCHANGED <<transactions, formVars, filterVars, storage, tz, prevSynced>>
    /\ effects' = IF strict THEN MountEffects(<<>>) \o MountEffects(<<>>) ELSE MountEffects(<<>>)
    /\ updates' = <<>>
    /\ last' = Last("mount", TRUE)
    /\ mountBlob' = storage
    /\ ioFailures' = 0

\* Mutant of LoadResult: a read that threw is taken as one that returned
\* the entry.
LoadResult_ReadsAnyway(readOk, raw) ==
    IF ~Truthy(raw) THEN <<>>
    ELSE LET parsed == JSONParse(raw)
         IN IF parsed.threw THEN <<>>
            ELSE IF parsed.isArray THEN <<parsed.value>> ELSE <<>>

\* What the load effect passes to setTransactions: <<parsed>>, or <<>> when
\* it sets nothing (read threw, no text, parse threw, not an array).
LoadResult(readOk, raw) ==
    IF ~readOk THEN <<>>
    ELSE IF ~Truthy(raw) THEN <<>>
    ELSE LET parsed == JSONParse(raw)
         IN IF parsed.threw THEN <<>>
            ELSE IF parsed.isArray THEN <<parsed.value>> ELSE <<>>

\* The count of failures after a read or write that succeeded or threw.
IoCount(ok) == IF ok THEN ioFailures ELSE ioFailures + 1

\* useEffect(() => { ...getItem...setTransactions(parsed) }, [])
RunLoadEffect(readOk) ==
    /\ phase = "mounted"
    /\ effects # <<>>
    /\ Head(effects).e = "load"
    /\ (readOk \/ ioFailures < MaxIoFailures)
    /\ effects' = Tail(effects)
    /\ updates' = updates \o LoadResult(readOk, storage)
    /\ ioFailures' = IoCount(readOk)
    /\ last' = [last EXCEPT !.read = ReadOutcome(@, readOk)]
    /\ UNCHANGED <<transactions, formVars, filterVars, storage, phase, tz,
                   mountBlob, prevSynced>>

\* Mutant of PersistResult: the effect misses its dependency and never runs
\* again, so the entry stays what it was.
PersistResult_NoRerun(writeOk, txs, old) == old

\* localStorage.setItem(STORAGE_KEY, JSON.stringify(txs)) inside try/catch:
\* the new entry, or the old one when setItem threw.
PersistResult(writeOk, txs, old) == IF writeOk THEN JSONStringify(txs) ELSE old

\* useEffect(() => { ...setItem... }, [transactions])
RunPersistEffect(writeOk) ==
    /\ phase = "mounted"
    /\ effects # <<>>
    /\ Head(effects).e = "persist"
    /\ (writeOk \/ ioFailures < MaxIoFailures)
    /\ effects' = Tail(effects)
    /\ storage' = PersistResult(writeOk, Head(effects).tx, storage)
    /\ ioFailures' = IoCount(writeOk)
    /\ UNCHANGED <<transactions, formVars, filterVars, phase, updates, tz,
                   last, mountBlob, prevSynced>>

\* The render that follows the effects' setTransactions calls: the state is
\* the value of the last call; it is a new array, so the persist effect's
\* dependency changed and the effect is scheduled again.
Rerender ==
    /\ phase = "mounted"
    /\ effects = <<>>
    /\ updates # <<>>
    /\ transactions' = updates[Len(updates)]
    /\ updates' = <<>>
    /\ effects' = <<PersistEffect(updates[Len(updates)])>>
    /\ UNCHANGED <<formVars, filterVars, storage, phase, tz, histVars>>

\* The page is closed or reloaded: the component's state is gone, the
\* storage entry stays.
Reload ==
    /\ Idle
    /\ phase' = "unmounted"
    /\ transactions' = <<>>
    /\ name' = <<>>
    /\ amount' = <<>>
    /\ type' = Expense
    /\ filterMode' = "all"
    /\ filterStart' = <<>>
    /\ filterEnd' = <<>>
    /\ filterMonth' = <<>>
    /\ listFilter' = "all"
    /\ prevSynced' = (storage = JSONStringify(transactions))
    /\ last' = Last("reload", TRUE)
    /\ mountBlob' = NoItem
    /\ ioFailures' = 0
    /\ UNCHANGED <<storage, effects, updates, tz>>

(***************************************************************************)
(* The user's handlers.  A handler that sets the collection runs with the  *)
(* render and the persist effect that follow it, before the next event.    *)
(***************************************************************************)
\* onChange of the name field: setName(e.target.value)
SetName(v) ==
    /\ Idle
    /\ name' = v
    /\ last' = Last("edit", TRUE)
    /\ UNCHANGED <<transactions, amount, type, filterVars, storage, phase, effects,
                   updates, tz, mountHist>>

\* onChange of the amount field: setAmount(formatCurrencyInput(e.target.value))
SetAmount(v) ==
    /\ Idle
    /\ amount' = formatCurrencyInput(v)
    /\ last' = Last("edit", TRUE)
    /\ UNCHANGED <<transactions, name, type, filterVars, storage, phase, effects,
                   updates, tz, mountHist>>

\* The two type buttons: setType(...)
SetType(ty) ==
    /\ Idle
    /\ type' = ty
    /\ last' = Last("edit", TRUE)
    /\ UNCHANGED <<transactions, name, amount, filterVars, storage, phase, effects,
                   updates, tz, mountHist>>

\* const numericAmount = parseInt(amount.replace(/\D/g, ""), 10)
NumericAmount(a) == ParseInt(DigitsOnly(a))

\* Mutant of Rejected: the name is tested without trim().
Rejected_NoTrim(n, a) ==
    n = <<>> \/ NumericAmount(a).nan \/ NumericAmount(a).val <= 0

\* The guard of handleAddTransaction: true when the handler returns early.
Rejected(n, a) ==
    Trim(n) = <<>> \/ NumericAmount(a).nan \/ NumericAmount(a).val <= 0

\* The record handleAddTransaction builds.
NewTransaction(n, a, ty, now, rnd) ==
    Transaction(MakeId(now, rnd), Trim(n), NumericAmount(a).val, ty, toISOString(now))

\* Mutant of AddResult: the new record is appended.
AddResult_Append(prev, new) == prev \o <<new>>

\* The updater (prev) => [newTransaction, ...prev]
AddResult(prev, new) == <<new>> \o prev

\* handleAddTransaction, rejected: return before any setState.
AddRejected ==
    /\ Idle
    /\ Rejected(name, amount)
    /\ last' = Snapshot("reject", TRUE)
    /\ UNCHANGED <<transactions, formVars, filterVars, storage, phase, effects,
                   updates, tz, mountBlob, prevSynced, ioFailures>>

\* handleAddTransaction, accepted: the new record in front, the form reset,
\* then the persist effect of the render that follows.
AddAccepted(now, rnd, writeOk) ==
    /\ Idle
    /\ ~Rejected(name, amount)
    /\ Len(transactions) < MaxTx
    /\ (writeOk \/ ioFailures < MaxIoFailures)
    /\ transactions' = AddResult(transactions, NewTransaction(name, amount, type, now, rnd))
    /\ name' = <<>>
    /\ amount' = <<>>
    /\ type' = Expense
    /\ storage' = PersistResult(writeOk, transactions', storage)
    /\ ioFailures' = IoCount(writeOk)
    /\ last' = Snapshot("add", writeOk)
    /\ mountBlob' = NoItem
    /\ prevSynced' = FALSE
    /\ UNCHANGED <<filterVars, phase, effects, updates, tz>>

handleAddTransaction ==
    \/ AddRejected
    \/ \E now \in NowInputs, rnd \in RandInputs, writeOk \in BOOLEAN :
           AddAccepted(now, rnd, writeOk)

\* The updater (prev) => prev.filter((t) => t.id !== id)
DeleteResult(prev, id) == SelectSeq(prev, LAMBDA t : t.id # id)

\* handleDeleteTransaction(id), with the persist effect that follows (filter
\* always returns a new array, so the effect runs even when nothing matched).
handleDeleteTransaction(id, writeOk) ==
    /\ Idle
    /\ (writeOk \/ ioFailures < MaxIoFailures)
    /\ transactions' = DeleteResult(transactions, id)
    /\ storage' = PersistResult(writeOk, transactions', storage)
    /\ ioFailures' = IoCount(writeOk)
    /\ last' = Snapshot("delete", writeOk)
    /\ mountBlob' = NoItem
    /\ prevSynced' = FALSE
    /\ UNCHANGED <<formVars, filterVars, phase, effects, updates, tz>>

\* An id no record carries.
AbsentId == MakeId(Instant(0, 0), 9)

\* Ids a delete is tried with: those in the collection, and an absent one.
IdInputs == { transactions[i].id : i \in 1..Len(transactions) } \cup {AbsentId}

(***************************************************************************)
(* The filter controls                                                     *)
(***************************************************************************)
FilterModes == {"all", "range", "month"}
ListFilterTypes == {"all"} \cup TransactionType

\* Values of the two date inputs: empty, three days, a text that is no date.
DateInputs ==
    { <<>>,
      <<"2", "0", "2", "6", "-", "0", "2", "-", "0", "1">>,
      <<"2", "0", "2", "6", "-", "0", "3", "-", "0", "9">>,
      <<"2", "0", "2", "6", "-", "0", "3", "-", "1", "0">>,
      <<"a", "b", "c">> }

\* Values of the month input: empty, three months, texts that are no month.
MonthInputs ==
    { <<>>,
      <<"2", "0", "2", "6", "-", "0", "1">>,
      <<"2", "0", "2", "6", "-", "0", "2">>,
      <<"2", "0", "2", "5", "-", "1", "2">>,
      <<"a", "b", "c">>,
      <<"2", "0", "2", "6">>,
      <<"2", "0", "2", "6", "-", "x", "x">> }

SetFilterMode(m) ==
    /\ Idle
    /\ filterMode' = m
    /\ last' = Last("filter", TRUE)
    /\ UNCHANGED <<transactions, formVars, filterStart, filterEnd, filterMonth, listFilter,
                   storage, phase, effects, updates, tz, mountHist>>

\* The date inputs are rendered in range mode only.
SetFilterStart(v) ==
    /\ Idle
    /\ filterMode = "range"
    /\ filterStart' = v
    /\ last' = Last("filter", TRUE)
    /\ UNCHANGED <<transactions, formVars, filterMode, filterEnd, filterMonth, listFilter,
                   storage, phase, effects, updates, tz, mountHist>>

SetFilterEnd(v) ==
    /\ Idle
    /\ filterMode = "range"
    /\ filterEnd' = v
    /\ last' = Last("filter", TRUE)
    /\ UNCHANGED <<transactions, formVars, filterMode, filterStart, filterMonth, listFilter,
                   storage, phase, effects, updates, tz, mountHist>>

\* The month input is rendered in month mode only.
SetFilterMonth(v) ==
    /\ Idle
    /\ filterMode = "month"
    /\ filterMonth' = v
    /\ last' = Last("filter", TRUE)
    /\ UNCHANGED <<transactions, formVars, filterMode, filterStart, filterEnd, listFilter,
                   storage, phase, effects, updates, tz, mountHist>>

\* The "clear filter" button.
ClearFilter ==
    /\ Idle
    /\ filterMode' = "all"
    /\ filterStart' = <<>>
    /\ filterEnd' = <<>>
    /\ filterMonth' = <<>>
    /\ last' = Last("filter", TRUE)
    /\ UNCHANGED <<transactions, formVars, listFilter, storage, phase, effects, updates,
                   tz, mountHist>>

SetListFilter(f) ==
    /\ Idle
    /\ listFilter' = f
    /\ last' = Snapshot("list", TRUE)
    /\ UNCHANGED <<transactions, formVars, filterMode, filterStart, filterEnd, filterMonth,
                   storage, phase, effects, updates, tz, mountHist>>

(***************************************************************************)
(* Specifications                                                          *)
(***************************************************************************)
\* Before the page is opened: nothing mounted, any entry in storage.
Init ==
    /\ InitialState
    /\ storage \in InitBlobs
    /\ phase = "unmounted"
    /\ effects = <<>>
    /\ updates = <<>>
    /\ tz = HomeZone
    /\ last = Last("none", TRUE)
    /\ mountBlob = NoItem
    /\ prevSynced = FALSE
    /\ ioFailures = 0

\* The store: mounting, the form, add, delete, reload.
Next ==
    \/ \E strict \in BOOLEAN : Mount(strict)
    \/ \E readOk \in BOOLEAN : RunLoadEffect(readOk)
    \/ \E writeOk \in BOOLEAN : RunPersistEffect(writeOk)
    \/ Rerender
    \/ \E v \in NameInputs : SetName(v)
    \/ \E v \in AmountInputs : SetAmount(v)
    \/ \E ty \in TransactionType : SetType(ty)
    \/ handleAddTransaction
    \/ \E id \in IdInputs, writeOk \in BOOLEAN : handleDeleteTransaction(id, writeOk)
    \/ Reload

Spec == Init /\ [][Next]_vars

\* Records created at the local wall-clock times the month and range
\* boundaries fall on: 2026-01-31 23:59:59.999, 2026-02-01 00:00:00.000,
\* 2026-03-09 23:59:59.999, 2026-03-10 00:00:00.000.
LocalRecord(y, m, d, ms, rnd, n, a, ty) ==
    LET at == FromLocal(Instant(DaysFromCivil(y, m, d), ms))
    IN Transaction(MakeId(at, rnd), n, a, ty, toISOString(at))

JanLast == LocalRecord(2026, 1, 31, MsPerDay - 1, 0, Coffee, 50000, Expense)
FebFirst == LocalRecord(2026, 2, 1, 0, 0, Salary, 2000000, Income)
Mar9Last == LocalRecord(2026, 3, 9, MsPerDay - 1, 0, Coffee, 50000, Expense)
Mar10First == LocalRecord(2026, 3, 10, 0, 0, Salary, 2000000, Income)

FilterRecords == {JanLast, FebFirst, Mar9Last, Mar10First}

RECURSIVE DistinctSeqs(_, _)
\* The sequences of at most n distinct elements of S.
DistinctSeqs(S, n) ==
    IF n = 0 THEN { <<>> }
    ELSE { <<>> } \cup
         UNION { { <<x>> \o rest : rest \in DistinctSeqs(S \ {x}, n - 1) } : x \in S }

\* The page idle in any zone, showing a collection of boundary records
\* that is persisted; the filters at their initial values.
FilterInit ==
    /\ tz \in TimeZones
    /\ transactions \in DistinctSeqs(FilterRecords, MaxTx)
    /\ name = <<>>
    /\ amount = <<>>
    /\ type = Expense
    /\ filterMode = "all"
    /\ filterStart = <<>>
    /\ filterEnd = <<>>
    /\ filterMonth = <<>>
    /\ listFilter = "all"
    /\ storage = JSONStringify(transactions)
    /\ phase = "mounted"
    /\ effects = <<>>
    /\ updates = <<>>
    /\ last = Last("mount", TRUE)
    /\ mountBlob = storage
    /\ prevSynced = FALSE
    /\ ioFailures = 0

\* The filter controls over a fixed collection.
FilterNext ==
    \/ \E m \in FilterModes : SetFilterMode(m)
    \/ \E v \in DateInputs : SetFilterStart(v)
    \/ \E v \in DateInputs : SetFilterEnd(v)
    \/ \E v \in MonthInputs : SetFilterMonth(v)
    \/ ClearFilter
    \/ \E f \in ListFilterTypes : SetListFilter(f)

FilterSpec == FilterInit /\ [][FilterNext]_vars

\* The names and amounts the ledger's user types, the days the start date
\* is set to.
LedgerNames == { Coffee, Salary }
LedgerAmounts == { <<"5", "0", "0", "0", "0">>, <<"2", "0", "0", "0", "0", "0", "0">> }
LedgerDates == { <<>>, <<"2", "0", "2", "6", "-", "0", "3", "-", "1", "0">> }

\* The page idle over an empty store, in UTC, where the two readings of the
\* clock fall on different days.
LedgerInit ==
    /\ InitialState
    /\ tz = 0
    /\ storage = JSONStringify(<<>>)
    /\ phase = "mounted"
    /\ effects = <<>>
    /\ updates = <<>>
    /\ last = Last("mount", TRUE)
    /\ mountBlob = storage
    /\ prevSynced = FALSE
    /\ ioFailures = 0

\* The ledger in use, its storage working: the form, add, delete, and the
\* date filter over the collection they build.
LedgerNext ==
    \/ \E v \in LedgerNames : SetName(v)
    \/ \E v \in LedgerAmounts : SetAmount(v)
    \/ \E ty \in TransactionType : SetType(ty)
    \/ AddRejected
    \/ \E now \in NowInputs, rnd \in RandInputs : AddAccepted(now, rnd, TRUE)
    \/ \E id \in IdInputs : handleDeleteTransaction(id, TRUE)
    \/ \E m \in FilterModes : SetFilterMode(m)
    \/ \E v \in LedgerDates : SetFilterStart(v)
    \/ ClearFilter

LedgerSpec == LedgerInit /\ [][LedgerNext]_vars

(***************************************************************************)
(* Claims                                                                  *)
(***************************************************************************)
\* The positive amounts the amount field can show.
PositiveAmounts ==
    { n \in { DigitsValue(DigitsOnly(v)) : v \in AmountInputs } : n > 0 }

NotBlank(n) == \E i \in 1..Len(n) : n[i] # " "

\* A submission the data model accepts: a name that is not blank and an
\* amount field showing a positive integer.
ValidSubmission(n, a) ==
    /\ NotBlank(n)
    /\ \E v \in PositiveAmounts : ToLocaleStringVi(v) = a

\* The amount the field shows.
ShownAmount(a) == CHOOSE v \in PositiveAmounts : ToLocaleStringVi(v) = a

\* The name without the blanks around it.
ShownName(n) ==
    LET first == CHOOSE i \in 1..Len(n) : n[i] # " " /\ \A j \in 1..(i - 1) : n[j] = " "
        final == CHOOSE i \in 1..Len(n) : n[i] # " " /\ \A j \in (i + 1)..Len(n) : n[j] = " "
    IN SubSeq(n, first, final)

\* C1: a submission with a non-blank name and a positive amount puts the new
\* record (trimmed name, that amount, the selected type) in front of the
\* previous collection, whose order is kept: the length grows by exactly 1.
C1_AddPrepends ==
    (last.op \in {"add", "reject"} /\ ValidSubmission(last.name, last.amount)) =>
        /\ last.op = "add"
        /\ Len(transactions) = Len(last.tx) + 1
        /\ Tail(transactions) = last.tx
        /\ Head(transactions).name = ShownName(last.name)
        /\ Head(transactions).amount = ShownAmount(last.amount)
        /\ Head(transactions).type = last.type

\* C1 witness: an accepted add put (Salary, 2000000, Income) in front of an
\* older record.
C1_Witness ==
    /\ last.op = "add"
    /\ Len(transactions) = 2
    /\ transactions[1].name = Salary
    /\ transactions[1].amount = 2000000
    /\ transactions[1].type = Income
    /\ transactions[2].name = Coffee

\* C2: a submission with a blank name, or with an amount field that shows
\* no positive integer, changes nothing: the collection, the storage entry
\* and the three form fields are what the handler found.
C2_InvalidIsNoOp ==
    (last.op \in {"add", "reject"} /\ ~ValidSubmission(last.name, last.amount)) =>
        /\ last.op = "reject"
        /\ transactions = last.tx
        /\ storage = last.storage
        /\ name = last.name
        /\ amount = last.amount
        /\ type = last.type

\* C2 witness: a submission with a whitespace-only name and the amount
\* 50.000 was rejected while the collection held a record.
C2_Witness ==
    /\ last.op = "reject"
    /\ name = <<" ">>
    /\ amount = <<"5", "0", ".", "0", "0", "0">>
    /\ type = Income
    /\ Len(transactions) = 1

RECURSIVE IsSubsequence(_, _)
\* r is s with some elements left out, the others in their order.
IsSubsequence(r, s) ==
    IF r = <<>> THEN TRUE
    ELSE IF s = <<>> THEN FALSE
    ELSE IF Head(r) = Head(s) THEN IsSubsequence(Tail(r), Tail(s))
    ELSE IsSubsequence(r, Tail(s))

\* C3: for every id, deleting shortens the collection by at most 1 record,
\* keeps the others in their order, is a no-op when the id is absent, and a
\* second delete of the same id changes nothing.
C3_DeleteAtMostOne ==
    \A id \in IdInputs :
        LET r == DeleteResult(transactions, id)
        IN /\ Len(r) >= Len(transactions) - 1
           /\ IsSubsequence(r, transactions)
           /\ DeleteResult(r, id) = r
           /\ (\A i \in 1..Len(transactions) : transactions[i].id # id) => r = transactions

\* C4: once an add or a delete has run with its persist effect and the
\* write succeeded, the storage entry is the serialisation of exactly the
\* collection in memory.
C4_PersistedAfterChange ==
    (last.op \in {"add", "delete"} /\ last.wrote) =>
        /\ storage = JSONStringify(transactions)
        /\ ~JSONParse(storage).threw
        /\ JSONParse(storage).isArray
        /\ JSONParse(storage).value = transactions

\* C4 witness: a delete left one record and its write succeeded, after an
\* earlier write of the session had failed.
C4_Witness ==
    /\ last.op = "delete"
    /\ last.wrote
    /\ ioFailures = 1
    /\ Len(transactions) = 1

\* C5: when the session before ended with its collection persisted, the
\* mount that follows, once its effects have run without a storage
\* failure, holds that collection in memory and leaves it in storage.
C5_RoundTrip ==
    (Idle /\ last.op = "mount" /\ prevSynced /\ ioFailures = 0) =>
        /\ transactions = JSONParse(mountBlob).value
        /\ storage = mountBlob

\* A collection the data model allows: every record with a name that is not
\* empty, an amount > 0 and a type, no id twice.
WellFormedCollection(txs) ==
    /\ \A i \in 1..Len(txs) :
           txs[i].name # <<>> /\ txs[i].amount > 0 /\ txs[i].type \in TransactionType
    /\ \A i, j \in 1..Len(txs) : txs[i].id = txs[j].id => i = j

\* The entry is a JSON text of a well-formed collection.
WellFormedBlob(raw) ==
    /\ ~JSONParse(raw).threw
    /\ JSONParse(raw).isArray
    /\ WellFormedCollection(JSONParse(raw).value)

\* C6: mounted over an entry that is missing, is not JSON, or is no
\* well-formed collection of transactions, the store starts empty.
C6_BadEntryStartsEmpty ==
    (Idle /\ last.op = "mount" /\ ~WellFormedBlob(mountBlob)) => transactions = <<>>

\* C7: every record of the collection has an amount > 0 and a name that is
\* not empty.
C7_RecordsValid ==
    \A i \in 1..Len(transactions) :
        transactions[i].amount > 0 /\ transactions[i].name # <<>>

\* The text is a calendar date YYYY-MM-DD.
IsCalendarDate(str) ==
    LET parts == Split(str, "-")
    IN /\ Len(parts) = 3
       /\ Len(parts[1]) = 4 /\ Len(parts[2]) = 2 /\ Len(parts[3]) = 2
       /\ AllDigits(parts[1]) /\ AllDigits(parts[2]) /\ AllDigits(parts[3])
       /\ DigitsValue(parts[1]) >= 1000
       /\ DigitsValue(parts[2]) \in 1..12
       /\ DigitsValue(parts[3]) \in 1..DaysInMonth(DigitsValue(parts[1]), DigitsValue(parts[2]))

\* The day number of the calendar date the text names.
ChosenDay(str) ==
    LET parts == Split(str, "-")
    IN DaysFromCivil(DigitsValue(parts[1]), DigitsValue(parts[2]), DigitsValue(parts[3]))

\* The text is a month YYYY-MM.
IsCalendarMonth(str) ==
    LET parts == Split(str, "-")
    IN /\ Len(parts) = 2
       /\ Len(parts[1]) = 4 /\ Len(parts[2]) = 2
       /\ AllDigits(parts[1]) /\ AllDigits(parts[2])
       /\ DigitsValue(parts[1]) >= 1000
       /\ DigitsValue(parts[2]) \in 1..12

\* <<y, m>> of the month the text names.
ChosenMonth(str) ==
    LET parts == Split(str, "-")
    IN <<DigitsValue(parts[1]), DigitsValue(parts[2])>>

\* The local calendar day (a day number) a record was created on, and its
\* <<y, m>>.
LocalDay(t) == ToLocal(CreatedMs(t)).d
LocalMonth(t) == <<CivilFromDays(LocalDay(t))[1], CivilFromDays(LocalDay(t))[2]>>

\* A bound of the range filter as the claim reads it: a text that is no date
\* counts as no bound.
UsableBound(str) == IF IsCalendarDate(str) THEN str ELSE <<>>

\* C8: in range mode a bound that cannot be parsed is treated as absent, so
\* it excludes no record; in month mode an absent or unparseable month
\* gives the whole collection.
C8_UnparseableFailsOpen ==
    /\ filterMode = "range" =>
           filteredTransactions =
               RangeFiltered(transactions, UsableBound(filterStart), UsableBound(filterEnd))
    /\ (filterMode = "month" /\ ~IsCalendarMonth(filterMonth)) =>
           filteredTransactions = transactions

\* C9: in range mode with bounds that are dates or absent, the result is
\* exactly the records created from 00:00:00.000 of the start day to
\* 23:59:59.999 of the end day, that is on a calendar day from the start
\* day to the end day, in their order; an absent bound excludes nothing.
C9_RangeIsWholeDays ==
    (/\ filterMode = "range"
     /\ filterStart = <<>> \/ IsCalendarDate(filterStart)
     /\ filterEnd = <<>> \/ IsCalendarDate(filterEnd)) =>
        filteredTransactions =
            SelectSeq(transactions,
                      LAMBDA t : /\ filterStart = <<>> \/ ChosenDay(filterStart) <= LocalDay(t)
                                 /\ filterEnd = <<>> \/ LocalDay(t) <= ChosenDay(filterEnd))

Month202601 == <<"2", "0", "2", "6", "-", "0", "1">>
Month202602 == <<"2", "0", "2", "6", "-", "0", "2">>

InSeq(x, sq) == \E i \in 1..Len(sq) : sq[i] = x

\* C10: in month mode with a valid month, the result is exactly the records
\* created in that month, from its first instant to the last instant of its
\* last day, in their order: the record of 2026-01-31 23:59:59.999 is in
\* 2026-01 and not in 2026-02, the record of 2026-02-01 00:00:00.000 is in
\* 2026-02 and not in 2026-01.
C10_MonthIsWholeMonth ==
    (filterMode = "month" /\ IsCalendarMonth(filterMonth)) =>
        /\ filteredTransactions =
               SelectSeq(transactions, LAMBDA t : LocalMonth(t) = ChosenMonth(filterMonth))
        /\ filterMonth = Month202601 =>
               /\ InSeq(JanLast, transactions) => InSeq(JanLast, filteredTransactions)
               /\ ~InSeq(FebFirst, filteredTransactions)
        /\ filterMonth = Month202602 =>
               /\ InSeq(FebFirst, transactions) => InSeq(FebFirst, filteredTransactions)
               /\ ~InSeq(JanLast, filteredTransactions)

\* C10 witness: of the two records around the month boundary, month 2026-01
\* keeps only the one of 2026-01-31 23:59:59.999.
C10_Witness ==
    /\ filterMode = "month"
    /\ filterMonth = Month202601
    /\ transactions = <<FebFirst, JanLast>>
    /\ filteredTransactions = <<JanLast>>

RECURSIVE AmountOver(_, _)
\* The sum of the amounts of the records of txs at the positions in S.
AmountOver(txs, S) ==
    IF S = {} THEN 0
    ELSE LET i == CHOOSE j \in S : TRUE
         IN txs[i].amount + AmountOver(txs, S \ {i})

\* The positions of the records of a type.
PositionsOf(txs, ty) == { i \in 1..Len(txs) : txs[i].type = ty }

IsRecord(t, n, a, ty) == t.name = n /\ t.amount = a /\ t.type = ty

\* The collection the scenario builds: Coffee added, then Salary.
CoffeeThenSalary(txs) ==
    /\ Len(txs) = 2
    /\ IsRecord(txs[1], Salary, 2000000, Income)
    /\ IsRecord(txs[2], Coffee, 50000, Expense)

\* C11: totalExpense is the sum of the amounts of the Expense records of the
\* filtered subset, totalIncome that of its Income records, balance is
\* totalIncome - totalExpense; the empty subset gives 0, 0, 0.  With no date
\* filter, after adding (Coffee, 50000, Expense) and (Salary, 2000000,
\* Income) the totals are 50000, 2000000, 1950000, and after deleting the
\* Coffee record from these two they are 0, 2000000, 2000000.
C11_Totals ==
    /\ totalExpense = AmountOver(filteredTransactions, PositionsOf(filteredTransactions, Expense))
    /\ totalIncome = AmountOver(filteredTransactions, PositionsOf(filteredTransactions, Income))
    /\ balance + totalExpense = totalIncome
    /\ filteredTransactions = <<>> => totalExpense = 0 /\ totalIncome = 0 /\ balance = 0
    /\ (filterMode = "all" /\ CoffeeThenSalary(transactions)) =>
           totalExpense = 50000 /\ totalIncome = 2000000 /\ balance = 1950000
    /\ (/\ filterMode = "all" /\ last.op = "delete" /\ CoffeeThenSalary(last.tx)
        /\ transactions = <<last.tx[1]>>) =>
           totalExpense = 0 /\ totalIncome = 2000000 /\ balance = 2000000

\* C11 witness: Coffee and Salary were added and the Coffee record has just
\* been deleted; the totals are 0, 2000000, 2000000.
C11_Witness ==
    /\ filterMode = "all"
    /\ last.op = "delete"
    /\ CoffeeThenSalary(last.tx)
    /\ Len(transactions) = 1
    /\ IsRecord(transactions[1], Salary, 2000000, Income)
    /\ totalExpense = 0 /\ totalIncome = 2000000 /\ balance = 2000000

\* A date filter cuts the two records of the scenario apart: the totals are
\* those of the subset, and the balance is negative.
C11_FilteredWitness ==
    /\ filterMode = "range"
    /\ CoffeeThenSalary(transactions)
    /\ Len(filteredTransactions) = 1
    /\ balance = 0 - 50000

\* What the list shows is the date-filtered subset narrowed to the chosen
\* type, in its order.
ListIsNarrowed ==
    IF listFilter = "all" THEN visibleListTransactions = filteredTransactions
    ELSE /\ IsSubsequence(visibleListTransactions, filteredTransactions)
         /\ \A i \in 1..Len(visibleListTransactions) :
                visibleListTransactions[i].type = listFilter
         /\ Len(visibleListTransactions) =
                Cardinality(PositionsOf(filteredTransactions, listFilter))

\* What a click on a list filter button found is what there is after it:
\* the totals, the date-filtered subset, the collection, the storage entry.
ListFilterFrame ==
    last.op = "list" =>
        /\ <<totalExpense, totalIncome, balance>> = last.totals
        /\ filteredTransactions = last.shown
        /\ transactions = last.tx
        /\ storage = last.storage

\* C12: visibleListTransactions is the date-filtered subset itself when
\* listFilter is all, and otherwise exactly its records of the chosen type
\* in the same order; changing listFilter leaves totalExpense, totalIncome,
\* balance, filteredTransactions, the collection and the storage entry as
\* they were.
C12_ListFilterOnlyNarrows == ListIsNarrowed /\ ListFilterFrame

\* C12 witness: month 2026-01 keeps the expense of 2026-01-31 out of two
\* records; with the list narrowed to income nothing is listed, and the
\* expense total is still 50000.
C12_Witness ==
    /\ filterMode = "month"
    /\ filterMonth = Month202601
    /\ transactions = <<JanLast, FebFirst>>
    /\ listFilter = Income
    /\ last.op = "list"
    /\ filteredTransactions = <<JanLast>>
    /\ visibleListTransactions = <<>>
    /\ totalExpense = 50000

\* The ids of a collection.
IdsOf(txs) == { txs[i].id : i \in 1..Len(txs) }

\* The collection in memory is the one filtered and totalled.
MemoryIsShown ==
    /\ filteredTransactions = transactions
    /\ totalExpense = AmountOver(transactions, PositionsOf(transactions, Expense))
    /\ totalIncome = AmountOver(transactions, PositionsOf(transactions, Income))

\* C13: when the write of an add or a delete fails, the page stays mounted
\* and the collection in memory has the change (the new record in front;
\* the records of the deleted id gone) and is the one filtered and
\* totalled; a write that succeeds, also after a failed one, leaves the
\* storage entry equal to the serialisation of the collection in memory;
\* and a mount whose reads of the entry all failed ends, still mounted,
\* with the empty collection.
C13_StorageFailuresContained ==
    /\ ioFailures > 0 => phase = "mounted"
    /\ (last.op = "add" /\ ~last.wrote) =>
           /\ Len(transactions) = Len(last.tx) + 1
           /\ Tail(transactions) = last.tx
           /\ MemoryIsShown
    /\ (last.op = "delete" /\ ~last.wrote) =>
           /\ \E id \in IdsOf(last.tx) \cup {AbsentId} :
                  /\ IsSubsequence(transactions, last.tx)
                  /\ id \notin IdsOf(transactions)
                  /\ \A i \in 1..Len(last.tx) :
                         last.tx[i].id # id => InSeq(last.tx[i], transactions)
           /\ MemoryIsShown
    /\ (last.op \in {"add", "delete"} /\ last.wrote) =>
           /\ storage = JSONStringify(transactions)
           /\ JSONParse(storage).value = transactions
    /\ (Idle /\ last.op = "mount" /\ last.read = "failed") => transactions = <<>>

\* C13 witness: the write of an add failed; the collection in memory has
\* the two records, the storage entry is still the one of before and is
\* out of date.
C13_Witness ==
    /\ last.op = "add"
    /\ ~last.wrote
    /\ ioFailures = 1
    /\ Len(transactions) = 2
    /\ storage = last.storage
    /\ storage # JSONStringify(transactions)

\* The write after a failed one succeeded: the entry the handler found was
\* out of date, the entry it left is not.
C13_ResyncWitness ==
    /\ last.op \in {"add", "delete"}
    /\ last.wrote
    /\ ioFailures = 1
    /\ last.storage # JSONStringify(last.tx)
    /\ storage = JSONStringify(transactions)

\* A mount over a stored record whose read failed: the store is empty.
C13_ReadFailureWitness ==
    /\ Idle
    /\ last.op = "mount"
    /\ last.read = "failed"
    /\ mountBlob = JSONStringify(<<StoredA>>)
    /\ transactions = <<>>

\* C14: from the mount to the user's first add or delete, a well-formed
\* collection that is not empty and was in storage when the component
\* mounted is in storage at every step, unchanged.
C14_StartupKeepsBlob ==
    (/\ phase = "mounted"
     /\ WellFormedBlob(mountBlob)
     /\ JSONParse(mountBlob).value # <<>>) => storage = mountBlob

====
